---- MODULE Spec2Model ----
(***************************************************************************)
(* Smart git-fetch cache of the Colorful Carbon extension: the zsh hook    *)
(* __colorful_carbon_fetch (maybeSync), its detached background job, the   *)
(* git() wrapper that records manual pull/fetch, and the starship          *)
(* custom.git_upstream prompt command (Trust Evaluator).  Independent      *)
(* shell processes coordinate only through files under ~/.git-fetch-cache. *)
(* One action is one file-system step of one process, so that every        *)
(* interleaving of the processes is explored.                              *)
(*                                                                         *)
(* .zshrc defines the hook, calls it once, and only further down defines   *)
(* the shell function git().  The call at the end of the smart-fetch block *)
(* therefore runs the git program; every later call of the hook, made by   *)
(* chpwd / preexec, and the detached job it starts, run git through the    *)
(* function.  The prompt command runs in sh and always runs the program.   *)
(***************************************************************************)
EXTENDS Integers, Sequences, FiniteSets, TLC

(* ---------------- bounds of the model ---------------- *)
\* wall-clock value (epoch seconds) at which the exploration starts
T0 == 3000000
\* number of clock advances explored
MaxTicks == 2

(* ---------------- program constants ---------------- *)
\* [[ $age -lt 900 ]] in the hook, [ $age -lt 900 ] in the prompt
FreshnessWindow == 900
\* find ... -mtime +30
RetentionDays == 30
\* find counts age in 24-hour periods
DaySeconds == 24 * 60 * 60

Shells == {"s1", "s2"}
Roots == {"r1", "r2"}
\* the sessions explored: the directory each terminal is used in ("r1/sub"
\* lies inside repository r1, "tmp" outside every repository), and
\* whether the opt-out variable is set in the second terminal's environment
Sessions ==
  { [cwd |-> [p \in Shells |-> IF p = "s1" THEN "r1/sub" ELSE "r1"], optOut |-> FALSE],
    [cwd |-> [p \in Shells |-> IF p = "s1" THEN "r1/sub" ELSE "r2"], optOut |-> FALSE],
    [cwd |-> [p \in Shells |-> IF p = "s1" THEN "tmp" ELSE "r1"], optOut |-> FALSE],
    [cwd |-> [p \in Shells |-> IF p = "s1" THEN "r1/sub" ELSE "r1"], optOut |-> TRUE] }
\* availability of the hash commands on the machine
HashTools == {"shasum", "sha256sum", "none"}
\* the find implementation on PATH (macOS and Linux are both supported)
FindFlavors == {"bsd", "gnu"}
\* what ["sh"] resolves to for the starship command
ShFlavors == {"bash", "dash"}
\* the two differ only where the operand of $(( )) is not a number
ShCases(rec) == IF rec.kind \in {"word", "nowref", "bad"} THEN ShFlavors ELSE {"bash"}
\* what $? holds after  local output=$(command git "$@" 2>&1) : the status
\* of the declaration, which is 0 ("zero"), or the status of the command
\* substitution ("kept")
LocalStatuses == {"zero", "kept"}

(* ---------------- Repository Identity Resolver ---------------- *)
\* git rev-parse --show-toplevel run as a program: "" when the directory is
\* in no work tree
TopLevel(d) ==
  CASE d \in {"r1", "r1/sub"} -> "r1"
    [] d = "r2" -> "r2"
    [] OTHER -> ""

\* the text git() hands on for rev-parse outside a repository: output holds
\* stderr too (2>&1), and echo "$output" prints git's message on stdout
ErrRoot == "fatal"

\* the text used as repo_root, as a sequence of characters
RootPath(r) ==
  CASE r = "r1" -> <<"/", "a", "/", "b">>
    [] r = "r2" -> <<"/", "a", "_", "b">>
    [] OTHER -> <<"f", ":">>

\* shasum -a 256 / sha256sum: an injective stand-in for the digest
Sha256(path) == <<"#">> \o path

\* sed 's/\//_/g'
Mangle(path) == [i \in 1..Len(path) |-> IF path[i] = "/" THEN "_" ELSE path[i]]

\* hash=$(echo -n "$repo_root" | shasum -a 256 2>/dev/null | cut -d' ' -f1)
\* the hook has no fallback: without shasum the pipeline prints nothing
SyncHash(tool, path) == IF tool = "shasum" THEN Sha256(path) ELSE <<>>

\* if command -v shasum ... elif command -v sha256sum ... else sed
FallbackHash(tool, path) ==
  IF tool = "shasum" THEN Sha256(path)
  ELSE IF tool = "sha256sum" THEN Sha256(path)
  ELSE Mangle(path)

\* the keys of the repositories
RepoKeys == {Sha256(RootPath(r)) : r \in Roots} \cup {Mangle(RootPath(r)) : r \in Roots}

\* every file name the cache directory can hold
Keys == RepoKeys \cup {Sha256(RootPath(ErrRoot)), Mangle(RootPath(ErrRoot))}

(* ---------------- Freshness Store values ---------------- *)
\* a cache file: kind "num" holds val; the other kinds are an absent file,
\* a file cat cannot read, an empty file, and three non-numeric contents:
\* "word" (abc), "nowref" (the text now) and "bad" (12abc)
Absent == [kind |-> "absent", val |-> 0, mtime |-> 0]
NumRec(v, m) == [kind |-> "num", val |-> v, mtime |-> m]
EmptyRec(m) == [kind |-> "empty", val |-> 0, mtime |-> m]

NoLoc == [key |-> <<>>, now |-> 0, wrapped |-> FALSE]
NoJob == [key |-> <<>>, now |-> 0, phase |-> "none", wrapped |-> FALSE, ok |-> FALSE]
NoOut == [kind |-> "none", key |-> <<>>, res |-> "", t |-> 0,
          up |-> FALSE, origin |-> FALSE, text |-> FALSE]

VARIABLES
  clock,       \* date +%s
  hashTool,    \* which hash command exists on this machine
  localStatus, \* what local leaves in $? on this machine's zsh
  cacheDir,    \* ~/.git-fetch-cache exists
  record,      \* cache files, by key
  lock,        \* lock markers <key>.lock, by key
  pc,          \* position of each shell's foreground code
  cwd,         \* the directory each terminal is used in
  disabled,    \* COLORFUL_CARBON_DISABLE_AUTOFETCH is set in the shell
  loc,         \* locals of the running hook or wrapper (cache key, $now)
  job,         \* the detached subshell ( ... ) &! started by each shell
  out,         \* the latest event at the present instant: how the operation that
               \* finished last ended (hook return, fetch started, job end, wrapper
               \* end, prompt line); steps inside an operation are not events
  zshrc,       \* content of ~/.zshrc, or NoFile
  starship,    \* content of ~/.config/starship.toml, or NoFile
  backups,     \* the files <path>.backup-<timestamp>
  dialog,      \* the warning of removeTerminalConfiguration is open
  stamp,       \* number of timestamps taken by applyTerminalConfiguration
  autoApply,   \* the setting colorfulCarbon.autoApplyTerminalTheme
  prompted,    \* globalState smartFetchUpgradePrompted
  wpc,         \* each editor window: closed, its activation waiting at the
               \* upgrade question ("asking"), or activated
  shown,       \* number of times the upgrade question has been shown
  activations, \* number of activations so far
  chpwdFns,    \* the array chpwd_functions of one zsh process
  preexecFns,  \* the array preexec_functions of that process
  evals,       \* number of times the process has read the smart-fetch block
  calls,       \* the latest event in that process and the number of calls of
               \* __colorful_carbon_fetch it made
  manualFlag,  \* isManualThemeSwitch
  inProgress,  \* switchToTheme operations whose reset timer has not fired
  editorTheme, \* workbench.colorTheme as getCurrentThemeName reads it
  requested,   \* theme changes asked for and not yet applied by the editor
  waiting,     \* listener calls inside their THEME_CONFIG_WRITE delay
  lastApplied  \* lastAppliedTheme of the listener

\* the configuration files the extension manages in the home directory
\* the state ensureLatestTerminalConfig goes by, and its windows
upgrade == <<autoApply, prompted, wpc, shown, activations>>

config == <<zshrc, starship, backups, dialog, stamp, upgrade>>

\* the hook arrays of the zsh process whose registrations are followed
shellHooks == <<chpwdFns, preexecFns, evals, calls>>

\* the state of theme switching in one window
themeSwitch == <<manualFlag, inProgress, editorTheme, requested, waiting, lastApplied>>

vars == <<clock, hashTool, localStatus, cacheDir, record, lock, pc, cwd, disabled, loc, job, out,
          config, shellHooks, themeSwitch>>

store == <<cacheDir, record, lock>>

machine == <<hashTool, localStatus, cwd, disabled, config, shellHooks, themeSwitch>>

\* the state of the terminals and of the cache
terminals == <<clock, hashTool, localStatus, cacheDir, record, lock, pc, cwd, disabled, loc, job, out>>

(* ---------------- git as the shell sees it ---------------- *)
\* [[ $exit_code -eq 0 ]] inside git(), after a git program that succeeded
\* (ok) or failed
WrapperStatus(ok) == IF localStatus = "zero" THEN TRUE ELSE ok

\* the status a caller of git gets: that of the program, or the
\* return $exit_code of the function
GitStatus(wrapped, ok) == IF wrapped THEN WrapperStatus(ok) ELSE ok

\* git rev-parse --git-dir >/dev/null 2>&1 as a condition
InRepoSeen(d, wrapped) == GitStatus(wrapped, TopLevel(d) # "")

\* $(git rev-parse --show-toplevel 2>/dev/null)
RootSeen(d, wrapped) ==
  IF TopLevel(d) # "" THEN TopLevel(d)
  ELSE IF wrapped THEN ErrRoot
  ELSE ""

\* pull, fetch and status fail outside a repository
GitOutcomes(d) == IF TopLevel(d) = "" THEN {FALSE} ELSE BOOLEAN

(* ---------------- reading a record ---------------- *)
\* last_fetch=0; [ -f "$cache_file" ] && last_fetch=$(cat "$cache_file" 2>/dev/null || echo 0)
LastFetch(rec) ==
  IF rec.kind \in {"absent", "unreadable"}
  THEN [kind |-> "num", val |-> 0]
  ELSE [kind |-> rec.kind, val |-> rec.val]

\* the value of the name last_fetch inside $(( ... )): zsh and bash evaluate
\* the text of the variable as an expression (empty is 0, an unset name is 0,
\* the name now is $now); dash accepts only a number or nothing
ArithOperand(c, nowv, sh) ==
  CASE c.kind = "num" -> [ok |-> TRUE, v |-> c.val]
    [] c.kind = "empty" -> [ok |-> TRUE, v |-> 0]
    [] c.kind = "word" -> IF sh = "dash" THEN [ok |-> FALSE, v |-> 0] ELSE [ok |-> TRUE, v |-> 0]
    [] c.kind = "nowref" -> IF sh = "dash" THEN [ok |-> FALSE, v |-> 0] ELSE [ok |-> TRUE, v |-> nowv]
    [] OTHER -> [ok |-> FALSE, v |-> 0]

\* age=$((now - last_fetch))
Age(rec, nowv, sh) ==
  LET o == ArithOperand(LastFetch(rec), nowv, sh)
  IN  [ok |-> o.ok, v |-> nowv - o.v]

\* a hook that goes by the 300 seconds of the documented version
SyncFreshMut(age) == age < 300

\* [[ $age -lt 900 ]] && return        (hook, LAYER 3)
SyncFresh(age) == age < FreshnessWindow

\* a prompt that tests [ $age -le 900 ]
PromptFreshMut(age) == age <= FreshnessWindow

\* if [ $age -lt 900 ]; then printf "(#synced) "    (prompt)
PromptFresh(age) == age < FreshnessWindow

(* ---------------- Maintenance Sweeper ---------------- *)
\* a find run with -mtime +28
MtimeMatchesMut(age, flavor) == age \div DaySeconds >= RetentionDays - 1

\* -mtime +30: BSD find rounds the age up to whole 24-hour periods, GNU find
\* drops the fraction; +30 is "more than 30 periods"
MtimeMatches(age, flavor) ==
  IF flavor = "bsd"
  THEN (age + DaySeconds - 1) \div DaySeconds > RetentionDays
  ELSE age \div DaySeconds > RetentionDays

\* a find without the -mtime test
SweepMut(recs, nowv, flavor) == [k \in Keys |-> Absent]

\* find "$cache_dir" -type f -not -name "*.lock" -mtime +30 -delete
Sweep(recs, nowv, flavor) ==
  [k \in Keys |->
     IF recs[k].kind # "absent" /\ MtimeMatches(nowv - recs[k].mtime, flavor)
     THEN Absent
     ELSE recs[k]]

\* a sweep that also removes the markers that have no record beside them
SweepLocksMut(locks, recs) ==
  [k \in Keys |-> locks[k] /\ recs[k].kind # "absent"]

\* what the same find does to the lock markers: -not -name "*.lock" keeps
\* every one of them, whatever its age and whether or not a record exists
SweepLocks(locks, recs) == locks

(* ---------------- clock ---------------- *)
\* the instants explored lie one second before and exactly at each multiple
\* of the window after T0: T0, T0+899, T0+900, T0+1799, ...
TickStep(c) == IF (c - T0) % FreshnessWindow = 0 THEN FreshnessWindow - 1 ELSE 1

\* the instant reached after n advances
Instant(n) == T0 + (n \div 2) * FreshnessWindow + (n % 2) * (FreshnessWindow - 1)

(* ---------------- configuration files ---------------- *)
\* a path at which no file exists, and a file with its text
NoFile == [exists |-> FALSE, text |-> <<>>]
File(t) == [exists |-> TRUE, text |-> t]

\* .zshrc as a sequence of sections: "user" (lines of the user), "cc" (the
\* block between # Colorful Carbon Configuration - START and - END that
\* getZshrcContent writes) and "old" (the block of an earlier version: the
\* same markers and the line # Initialize Starship prompt, without the
\* __colorful_carbon_fetch hook); "init" is lines of the user that hold
\* the text # Initialize Starship prompt, and "inithook" the same lines
\* once installSmartFetch has put its block in front of that text
Blocks == {"cc", "old"}

\* the sections that hold the text __colorful_carbon_fetch, and those in
\* which /# Initialize Starship prompt/ finds a match without it
WithHook == {"cc", "inithook"}
WithInitLine == {"old", "init"}

\* the themes: starship.toml is <<"default">> as written by
\* getStarshipContent, <<"dark-night">> as written by
\* getDarkNightStarshipContent, or <<"user">>, a file of the user's own
ThemeTypes == {"default", "dark-night"}

\* content.includes('Custom Color-Coded Starship Theme')
IsOurStarship(t) == \E i \in 1..Len(t) : t[i] \in ThemeTypes

\* existingZshrc.includes('# Colorful Carbon Configuration')
HasBlock(t) == \E i \in 1..Len(t) : t[i] \in Blocks

\* the editor windows
Windows == {"w1", "w2"}

\* one window is open with the extension activated, under the default
\* setting; the upgrade question has never been asked
OneWindow ==
  /\ autoApply = TRUE
  /\ prompted = FALSE
  /\ wpc = [w \in Windows |-> IF w = "w1" THEN "active" ELSE "closed"]
  /\ shown = 0
  /\ activations = 1

\* .zshrc with the extension's block installed by the current version, and
\* its starship.toml: what the terminals of the fetch cache have read
Configured ==
  /\ zshrc = File(<<"user", "cc">>)
  /\ starship = File(<<"default">>)
  /\ backups = {}
  /\ dialog = FALSE
  /\ stamp = 0
  /\ OneWindow

(* ---------------- hook arrays ---------------- *)
\* no event has happened in the process
NoCalls == [event |-> "none", n |-> 0]

\* the arrays of a zsh process that has read nothing yet
Unregistered ==
  /\ chpwdFns = <<>>
  /\ preexecFns = <<>>
  /\ evals = 0
  /\ calls = NoCalls

(* ---------------- theme switching ---------------- *)
\* the window shows the default theme and no switch is under way
NoSwitching ==
  /\ manualFlag = FALSE
  /\ inProgress = 0
  /\ editorTheme = "default"
  /\ requested = <<>>
  /\ waiting = 0
  /\ lastApplied = "none"

(* ---------------- initial states ---------------- *)
\* nothing has been cached on this machine yet; each terminal is about to
\* be opened
Init ==
  /\ clock = T0
  /\ hashTool \in HashTools
  /\ localStatus \in LocalStatuses
  /\ cacheDir = FALSE
  /\ record = [k \in Keys |-> Absent]
  /\ lock = [k \in Keys |-> FALSE]
  /\ pc = [p \in Shells |-> "start"]
  /\ \E s \in Sessions :
        /\ cwd = s.cwd
        /\ disabled = [p \in Shells |-> s.optOut /\ p = "s2"]
  /\ loc = [p \in Shells |-> NoLoc]
  /\ job = [p \in Shells |-> NoJob]
  /\ out = NoOut
  /\ Configured
  /\ Unregistered
  /\ NoSwitching

(* ---------------- Background Synchronizer: the hook ---------------- *)
SyncOut(k, r) == [NoOut EXCEPT !.kind = "sync", !.key = k, !.res = r]

\* the hook returns to the prompt without having touched anything
HookReturn(p, k, r) ==
  /\ pc' = [pc EXCEPT ![p] = "idle"]
  /\ loc' = [loc EXCEPT ![p] = NoLoc]
  /\ out' = SyncOut(k, r)

\* __colorful_carbon_fetch, LAYER 1 to LAYER 3, run by shell p in its
\* directory, with git the program or (wrapped) the function
HookCall(p, wrapped) ==
  LET d == cwd[p]
      root == RootSeen(d, wrapped)
      key == SyncHash(hashTool, RootPath(root))
      age == Age(record[key], clock, "zsh")
  IN  IF ~InRepoSeen(d, wrapped) THEN HookReturn(p, <<>>, "norepo")
      ELSE IF root = "" THEN HookReturn(p, <<>>, "norepo")
      ELSE IF key = <<>> THEN HookReturn(p, <<>>, "nohash")
      ELSE IF ~age.ok THEN HookReturn(p, key, "matherr")
      ELSE IF SyncFresh(age.v) THEN HookReturn(p, key, "fresh")
      ELSE /\ pc' = [pc EXCEPT ![p] = "lockcheck"]
           /\ loc' = [loc EXCEPT ![p] = [key |-> key, now |-> clock, wrapped |-> wrapped]]
           /\ UNCHANGED out

\* a terminal opens and zsh reads .zshrc: with the opt-out
\* variable set the smart-fetch block is skipped; without it the block
\* defines the hook, registers it and calls it, before git() is defined
Startup(p) ==
  /\ pc[p] = "start"
  /\ IF disabled[p]
     THEN /\ pc' = [pc EXCEPT ![p] = "idle"]
          /\ UNCHANGED <<loc, out>>
     ELSE HookCall(p, FALSE)
  /\ UNCHANGED <<clock, machine, store, job>>

\* the hook called by chpwd_functions / preexec_functions in a terminal
\* that has read .zshrc; one detached job per terminal is followed at a time
Trigger(p) ==
  /\ pc[p] = "idle"
  /\ ~disabled[p]
  /\ job[p] = NoJob
  /\ HookCall(p, TRUE)
  /\ UNCHANGED <<clock, machine, store, job>>

\* [[ -f "$lock_file" ]] && return; mkdir -p "$cache_dir";
\* find "$cache_dir" ... -mtime +30 -delete
CheckLockSweep(p) ==
  /\ pc[p] = "lockcheck"
  /\ IF lock[loc[p].key]
     THEN /\ HookReturn(p, loc[p].key, "locked")
          /\ UNCHANGED <<cacheDir, record, lock>>
     ELSE /\ cacheDir' = TRUE
          /\ \E flavor \in FindFlavors : record' = Sweep(record, clock, flavor)
          /\ lock' = SweepLocks(lock, record)
          /\ pc' = [pc EXCEPT ![p] = "touch"]
          /\ UNCHANGED <<loc, out>>
  /\ UNCHANGED <<clock, machine, job>>

\* touch "$lock_file"; ( ... ) &!
TouchSpawn(p) ==
  /\ pc[p] = "touch"
  /\ lock' = [lock EXCEPT ![loc[p].key] = TRUE]
  /\ job' = [job EXCEPT ![p] = [key |-> loc[p].key, now |-> loc[p].now, phase |-> "fetching",
                                wrapped |-> loc[p].wrapped, ok |-> FALSE]]
  /\ pc' = [pc EXCEPT ![p] = "idle"]
  /\ loc' = [loc EXCEPT ![p] = NoLoc]
  /\ out' = [NoOut EXCEPT !.kind = "spawn", !.key = loc[p].key, !.t = loc[p].now]
  /\ UNCHANGED <<clock, machine, cacheDir, record>>

(* ---------------- Background Synchronizer: the detached job ---------------- *)
\* a job whose rm -f stands inside the if, after echo
LockAfterJobMut(locks, k, fetched) ==
  IF fetched THEN [locks EXCEPT ![k] = FALSE] ELSE locks

\* rm -f "$lock_file" as the last command of the subshell, whether or not
\* the if body ran (fetched); -f: no error when the marker is gone
LockAfterJob(locks, k, fetched) == [locks EXCEPT ![k] = FALSE]

\* the job ends; text: git's message has appeared on the terminal, which
\* happens where git is the function, whose output holds stderr (2>&1) and
\* is printed by echo "$output" on the stdout the subshell inherited
JobOut(j) ==
  [NoOut EXCEPT !.kind = "job", !.key = j.key, !.t = j.now,
                !.res = IF j.ok THEN "ok" ELSE "failed",
                !.text = (j.wrapped /\ ~j.ok)]

\* a real fetch fails for what is no repository
FetchOutcomes(k) == IF k \in RepoKeys THEN BOOLEAN ELSE {FALSE}

\* git fetch --quiet --all --prune --tags 2>/dev/null returns, after a git
\* program that succeeded (ok) or failed.  Where git is the function and its
\* exit_code test passes, the function has gone on to
\* echo $(date +%s) > "$cache_file"  before it returns (the terminals that
\* have the hook have no opt-out variable, the function repeats the hook's
\* repository tests, and with shasum at hand its file is the hook's).  With
\* status 0 the job goes on to the if body; otherwise rm -f runs and the
\* subshell ends.  Inside the job each  echo ... > file  is taken as one
\* step; the instant between the truncation and the write of a redirection
\* is explored at the wrapper's foreground write.
FetchDone(p, ok) ==
  /\ job[p].phase = "fetching"
  /\ LET j == job[p]
     IN  IF GitStatus(j.wrapped, ok)
         THEN /\ record' = IF j.wrapped
                           THEN [record EXCEPT ![j.key] = NumRec(clock, clock)]
                           ELSE record
              /\ job' = [job EXCEPT ![p].phase = "write", ![p].ok = ok]
              /\ out' = NoOut
              /\ UNCHANGED lock
         ELSE /\ lock' = LockAfterJob(lock, j.key, FALSE)
              /\ job' = [job EXCEPT ![p] = NoJob]
              /\ out' = JobOut([j EXCEPT !.ok = FALSE])
              /\ UNCHANGED record
  /\ UNCHANGED <<clock, machine, cacheDir, pc, loc>>

\* echo $now > "$cache_file" writes the value the hook read before the fetch
\* began; rm -f "$lock_file" and the subshell ends
WriteNowRelease(p) ==
  /\ job[p].phase = "write"
  /\ record' = [record EXCEPT ![job[p].key] = NumRec(job[p].now, clock)]
  /\ lock' = LockAfterJob(lock, job[p].key, TRUE)
  /\ job' = [job EXCEPT ![p] = NoJob]
  /\ out' = JobOut(job[p])
  /\ UNCHANGED <<clock, machine, cacheDir, pc, loc>>

(* ---------------- git() wrapper: manual pull / fetch ---------------- *)
GitCmds == {"pull", "fetch", "status"}

\* res records what the wrapper did after git: "wrote" the record, or
\* nothing, after a git that failed ("failed") or succeeded ("skipped", or
\* "optout" for a pull / fetch under the opt-out variable)
GitOut(k, r) == [NoOut EXCEPT !.kind = "git", !.key = k, !.res = r]

\* a wrapper that does not test the opt-out variable
WrapperRecordsMut(ok, dis, cmd, d) ==
  /\ WrapperStatus(ok)
  /\ cmd \in {"pull", "fetch"}
  /\ InRepoSeen(d, TRUE)
  /\ RootSeen(d, TRUE) # ""

\* if [[ $exit_code -eq 0 ]] && [[ -z "$COLORFUL_CARBON_DISABLE_AUTOFETCH" ]];
\* case "$1" in pull|fetch); git rev-parse --git-dir; [[ -n "$repo_root" ]]
WrapperRecords(ok, dis, cmd, d) ==
  /\ WrapperStatus(ok)
  /\ ~dis
  /\ cmd \in {"pull", "fetch"}
  /\ InRepoSeen(d, TRUE)
  /\ RootSeen(d, TRUE) # ""

\* command git "$@" has run and succeeded (ok) or failed; where the wrapper
\* goes on to record: mkdir -p "$cache_dir" && echo $(date +%s) > "$cache_file",
\* whose redirection truncates the file before echo writes
ManualGit(p, cmd, ok) ==
  /\ pc[p] = "idle"
  /\ LET key == FallbackHash(hashTool, RootPath(RootSeen(cwd[p], TRUE)))
     IN  IF WrapperRecords(ok, disabled[p], cmd, cwd[p])
         THEN /\ cacheDir' = TRUE
              /\ record' = [record EXCEPT ![key] = EmptyRec(clock)]
              /\ pc' = [pc EXCEPT ![p] = "mwrite"]
              /\ loc' = [loc EXCEPT ![p] = [key |-> key, now |-> clock, wrapped |-> TRUE]]
              /\ out' = NoOut
              /\ UNCHANGED lock
         ELSE /\ out' = GitOut(<<>>, IF ~ok THEN "failed"
                                      ELSE IF disabled[p] /\ cmd \in {"pull", "fetch"} THEN "optout"
                                      ELSE "skipped")
              /\ UNCHANGED <<store, pc, loc>>
  /\ UNCHANGED <<clock, machine, job>>

\* echo writes the timestamp
ManualWrite(p) ==
  /\ pc[p] = "mwrite"
  /\ record' = [record EXCEPT ![loc[p].key] = NumRec(loc[p].now, clock)]
  /\ pc' = [pc EXCEPT ![p] = "idle"]
  /\ loc' = [loc EXCEPT ![p] = NoLoc]
  /\ out' = GitOut(loc[p].key, "wrote")
  /\ UNCHANGED <<clock, machine, cacheDir, lock, job>>

(* ---------------- Trust Evaluator: starship custom.git_upstream ---------------- *)
\* vs the tracked upstream: "none" (no upstream, exit 0), "zero" (ahead and
\* behind both 0) or "counts"
Trackings == {"none", "zero", "counts"}
\* vs origin/<current>: "zero" when that branch exists, differs from the
\* upstream and is 0 ahead and 0 behind; "other" when there is no such
\* branch, it is the upstream, or a count is not 0
Mismatches == {"zero", "other"}

\* the first indicator: printf "(#synced) " under [ $age -lt 900 ]
UpSynced(tracking, age) == tracking = "zero" /\ age.ok /\ PromptFresh(age.v)

\* the second indicator: printf "(#synced)" for origin/<current>; dash leaves
\* the script at an arithmetic error, bash goes on to the next command
OriginSynced(tracking, mismatch, age, sh) ==
  /\ tracking # "none"
  /\ mismatch = "zero"
  /\ ~(tracking = "zero" /\ ~age.ok /\ sh = "dash")

\* one run of the command for the prompt of terminal p, which stands in a
\* repository (when = git rev-parse --git-dir)
PromptRender(p, tracking, mismatch) ==
  /\ pc[p] = "idle"
  /\ TopLevel(cwd[p]) # ""
  /\ \E sh \in ShCases(record[FallbackHash(hashTool, RootPath(TopLevel(cwd[p])))]) :
     LET key == FallbackHash(hashTool, RootPath(TopLevel(cwd[p])))
         age == Age(record[key], clock, sh)
     IN  out' = [NoOut EXCEPT !.kind = "prompt", !.key = key,
                              !.res = IF tracking = "zero" /\ ~age.ok THEN "matherr" ELSE "ok",
                              !.up = UpSynced(tracking, age),
                              !.origin = OriginSynced(tracking, mismatch, age, sh)]
  /\ UNCHANGED <<clock, machine, store, pc, loc, job>>

(* ---------------- time ---------------- *)
\* time passes between hook calls and while a fetch is on the network; the
\* terminals are opened at the first instant, and the few file operations
\* of one call are taken to be instantaneous
Tick ==
  /\ \A p \in Shells : pc[p] = "idle" /\ job[p].phase \in {"none", "fetching"}
  /\ clock < Instant(MaxTicks)
  /\ clock' = clock + TickStep(clock)
  /\ out' = NoOut
  /\ UNCHANGED <<machine, store, pc, loc, job>>

(* ---------------- specifications ---------------- *)
Next ==
  \/ \E p \in Shells : Startup(p)
  \/ \E p \in Shells : Trigger(p)
  \/ \E p \in Shells : CheckLockSweep(p)
  \/ \E p \in Shells : TouchSpawn(p)
  \/ \E p \in Shells : \E ok \in FetchOutcomes(job[p].key) : FetchDone(p, ok)
  \/ \E p \in Shells : WriteNowRelease(p)
  \/ \E p \in Shells : \E cmd \in GitCmds, ok \in GitOutcomes(cwd[p]) : ManualGit(p, cmd, ok)
  \/ \E p \in Shells : ManualWrite(p)
  \/ \E p \in Shells, t \in Trackings, m \in Mismatches : PromptRender(p, t, m)
  \/ Tick

Spec == Init /\ [][Next]_vars

(* ---------------- a store with earlier content ---------------- *)
\* the retention threshold in seconds
Retention == RetentionDays * DaySeconds

\* ages of records left by earlier sessions, around the sweep boundary
OldAges == {Retention - 1, Retention + 1, Retention + DaySeconds}

\* a cache file that is not a plain number
CorruptKinds == {"unreadable", "empty", "word", "nowref", "bad"}

\* what an earlier session, or damage, may have left under a key
Leftovers ==
  {Absent} \cup {NumRec(T0 - a, T0 - a) : a \in OldAges}
           \cup {[kind |-> c, val |-> 0, mtime |-> T0] : c \in CorruptKinds}

\* as Init, in terminals without the opt-out, on a machine whose cache
\* directory holds a leftover for repository r1, possibly an old record
\* for r2, and possibly the lock marker of a fetch for r1 that was killed
\* in an earlier session before its rm -f; with that marker the second
\* terminal is used in r1 as well, or in r2
InitStore ==
  /\ clock = T0
  /\ hashTool \in HashTools
  /\ localStatus \in LocalStatuses
  /\ cacheDir = TRUE
  /\ \E v \in Leftovers, w \in {Absent, NumRec(T0 - Retention - DaySeconds, T0 - Retention - DaySeconds)} :
        record = [k \in Keys |->
                    IF k = FallbackHash(hashTool, RootPath("r1")) THEN v
                    ELSE IF k = FallbackHash(hashTool, RootPath("r2")) THEN w
                    ELSE Absent]
  /\ \E stuck \in BOOLEAN :
        lock = [k \in Keys |-> stuck /\ hashTool = "shasum" /\ k = Sha256(RootPath("r1"))]
  /\ pc = [p \in Shells |-> "start"]
  /\ \E d \in (IF lock[Sha256(RootPath("r1"))] THEN {"r1", "r2"} ELSE {"r2"}) :
        cwd = [p \in Shells |-> IF p = "s1" THEN "r1/sub" ELSE d]
  /\ disabled = [p \in Shells |-> FALSE]
  /\ loc = [p \in Shells |-> NoLoc]
  /\ job = [p \in Shells |-> NoJob]
  /\ out = NoOut
  /\ Configured
  /\ Unregistered
  /\ NoSwitching

SpecStore == InitStore /\ [][Next]_vars

(* ---------------- the extension's commands on the configuration files ---------------- *)
\* number of runs of applyTerminalConfiguration explored
MaxApplies == 2

\* <path>.backup-<timestamp> with the text copied into it
Backup(path, s, t) == [file |-> path, stamp |-> s, text |-> t]

\* backupConfigs(timestamp): fs.copyFileSync for each of the two files that
\* exists
BackupConfigs(s) ==
  {Backup(".zshrc", s, f.text) : f \in {g \in {zshrc} : g.exists}}
    \cup {Backup("starship.toml", s, f.text) : f \in {g \in {starship} : g.exists}}

\* an appendZshrcConfig that appends without looking for the marker
AppendZshrcConfigMut(f) == File(Append(f.text, "cc"))

\* appendZshrcConfig: a missing file reads as '', and fs.appendFileSync
\* creates it
AppendZshrcConfig(f) ==
  IF HasBlock(f.text) THEN f ELSE File(Append(f.text, "cc"))

\* installSmartFetch: nothing where the hook is there; otherwise the first
\* # Initialize Starship prompt gets the smart-fetch block in front, which
\* makes the earlier version's block the current one
InstallSmartFetch(f) ==
  IF \E i \in 1..Len(f.text) : f.text[i] \in WithHook THEN f
  ELSE IF \E i \in 1..Len(f.text) : f.text[i] \in WithInitLine
  THEN LET first == CHOOSE i \in 1..Len(f.text) :
                       f.text[i] \in WithInitLine /\ \A j \in 1..(i - 1) : f.text[j] \notin WithInitLine
       IN  File([f.text EXCEPT ![first] = IF f.text[first] = "old" THEN "cc" ELSE "inithook"])
  ELSE f

IsUserSection(x) == x \notin Blocks

\* content.replace(/\n*# ... - START[\s\S]*?# ... - END\n*/g, '')
RemoveBlocks(t) == SelectSeq(t, IsUserSection)

\* applyTerminalConfiguration, for the theme getCurrentThemeName gives:
\* backupConfigs, appendZshrcConfig, installSmartFetch, writeStarshipConfig
ApplyTerminalConfiguration(theme) ==
  /\ stamp < MaxApplies
  /\ stamp' = stamp + 1
  /\ backups' = backups \cup BackupConfigs(stamp + 1)
  /\ zshrc' = InstallSmartFetch(AppendZshrcConfig(zshrc))
  /\ starship' = File(<<theme>>)
  /\ UNCHANGED <<dialog, terminals, themeSwitch, shellHooks, upgrade>>

\* updateStarshipConfig, run by the theme change listener for a Colorful
\* Carbon theme
UpdateStarshipConfig(theme) ==
  /\ starship' = File(<<theme>>)
  /\ UNCHANGED <<zshrc, backups, dialog, stamp, terminals, themeSwitch, shellHooks, upgrade>>

\* removeTerminalConfiguration up to  await showWarningMessage
RemoveAsk ==
  /\ ~dialog
  /\ dialog' = TRUE
  /\ UNCHANGED <<zshrc, starship, backups, stamp, terminals, themeSwitch, shellHooks, upgrade>>

\* what the warning resolves to; "" when it is dismissed
Choices == {"Yes, Remove", "Cancel", ""}

\* removeTerminalConfiguration from the answer on
RemoveAnswer(choice) ==
  /\ dialog
  /\ dialog' = FALSE
  /\ IF choice # "Yes, Remove"
     THEN UNCHANGED <<zshrc, starship>>
     ELSE /\ zshrc' = IF zshrc.exists THEN File(RemoveBlocks(zshrc.text)) ELSE zshrc
          /\ starship' = IF starship.exists /\ IsOurStarship(starship.text)
                         THEN NoFile
                         ELSE starship
  /\ UNCHANGED <<backups, stamp, terminals, themeSwitch, shellHooks, upgrade>>

\* the .zshrc files and starship.toml files the extension may find
ZshrcFiles ==
  {NoFile} \cup {File(t) : t \in {<<>>, <<"user">>, <<"user", "cc">>, <<"user", "old">>,
                                   <<"user", "cc", "user">>, <<"init">>, <<"init", "old">>}}
StarshipFiles == {NoFile, File(<<"user">>)} \cup {File(<<th>>) : th \in ThemeTypes}

\* the extension has been activated in a home directory; no terminal is
\* open yet
InitConfig ==
  /\ clock = T0
  /\ hashTool = "shasum"
  /\ localStatus = "kept"
  /\ cacheDir = FALSE
  /\ record = [k \in Keys |-> Absent]
  /\ lock = [k \in Keys |-> FALSE]
  /\ pc = [p \in Shells |-> "start"]
  /\ cwd = [p \in Shells |-> "tmp"]
  /\ disabled = [p \in Shells |-> FALSE]
  /\ loc = [p \in Shells |-> NoLoc]
  /\ job = [p \in Shells |-> NoJob]
  /\ out = NoOut
  /\ zshrc \in ZshrcFiles
  /\ starship \in StarshipFiles
  /\ backups = {}
  /\ dialog = FALSE
  /\ stamp = 0
  /\ OneWindow
  /\ Unregistered
  /\ NoSwitching

NextConfig ==
  \/ \E theme \in ThemeTypes : ApplyTerminalConfiguration(theme)
  \/ \E theme \in ThemeTypes : UpdateStarshipConfig(theme)
  \/ RemoveAsk
  \/ \E choice \in Choices : RemoveAnswer(choice)

SpecConfig == InitConfig /\ [][NextConfig]_vars

(* ---------------- activation: ensureLatestTerminalConfig ---------------- *)
\* number of activations explored
MaxActivations == 3

\* the colour theme of the editor: one of the two of the extension, or
\* another one
EditorThemes == ThemeTypes \cup {"other"}

\* content.includes('# Colorful Carbon Configuration - START')
HasStartMarker(t) == \E i \in 1..Len(t) : t[i] \in Blocks

\* content.includes('__colorful_carbon_fetch')
HasHookText(t) == \E i \in 1..Len(t) : t[i] \in WithHook

\* if (currentTheme && isColorfulCarbonTheme(currentTheme))
\*   await updateStarshipConfig(currentTheme), in ensureLatestTerminalConfig
\* and again in initializeTheme
StarshipAfterActivation(theme) ==
  IF theme \in ThemeTypes THEN File(<<theme>>) ELSE starship

\* a window opens and activate runs: ensureLatestTerminalConfig up to its
\* question, or, where it asks nothing, the activation to its end
Activate(w, theme) ==
  /\ wpc[w] = "closed"
  /\ activations < MaxActivations
  /\ activations' = activations + 1
  /\ LET missing == /\ zshrc.exists
                    /\ HasStartMarker(zshrc.text)
                    /\ ~HasHookText(zshrc.text)
     IN  IF missing /\ ~autoApply /\ ~prompted
         THEN /\ wpc' = [wpc EXCEPT ![w] = "asking"]
              /\ shown' = shown + 1
              /\ UNCHANGED <<zshrc, starship>>
         ELSE /\ zshrc' = IF missing /\ autoApply THEN InstallSmartFetch(zshrc) ELSE zshrc
              /\ starship' = StarshipAfterActivation(theme)
              /\ wpc' = [wpc EXCEPT ![w] = "active"]
              /\ UNCHANGED shown
  /\ UNCHANGED <<autoApply, prompted, backups, dialog, stamp, terminals, themeSwitch, shellHooks>>

\* what the question resolves to; "" when the notification is dismissed
UpgradeChoices == {"Enable", "Not Now", ""}

\* the question is answered: globalState.update, installSmartFetch after
\* Enable, and the rest of the activation
UpgradeAnswer(w, choice, theme) ==
  /\ wpc[w] = "asking"
  /\ prompted' = TRUE
  /\ zshrc' = IF choice = "Enable" THEN InstallSmartFetch(zshrc) ELSE zshrc
  /\ starship' = StarshipAfterActivation(theme)
  /\ wpc' = [wpc EXCEPT ![w] = "active"]
  /\ UNCHANGED <<autoApply, shown, activations, backups, dialog, stamp, terminals, themeSwitch, shellHooks>>

\* the window is closed or reloaded; a question that is still open goes
\* with it
CloseWindow(w) ==
  /\ wpc[w] # "closed"
  /\ wpc' = [wpc EXCEPT ![w] = "closed"]
  /\ UNCHANGED <<zshrc, starship, backups, dialog, stamp, autoApply, prompted, shown,
                 activations, terminals, themeSwitch, shellHooks>>

\* the user changes colorfulCarbon.autoApplyTerminalTheme
SetAutoApply(b) ==
  /\ autoApply # b
  /\ autoApply' = b
  /\ UNCHANGED <<zshrc, starship, backups, dialog, stamp, prompted, wpc, shown,
                 activations, terminals, themeSwitch, shellHooks>>

\* no window is open yet; the home directory is as the extension may find it
InitInstall ==
  /\ clock = T0
  /\ hashTool = "shasum"
  /\ localStatus = "kept"
  /\ cacheDir = FALSE
  /\ record = [k \in Keys |-> Absent]
  /\ lock = [k \in Keys |-> FALSE]
  /\ pc = [p \in Shells |-> "start"]
  /\ cwd = [p \in Shells |-> "tmp"]
  /\ disabled = [p \in Shells |-> FALSE]
  /\ loc = [p \in Shells |-> NoLoc]
  /\ job = [p \in Shells |-> NoJob]
  /\ out = NoOut
  /\ zshrc \in ZshrcFiles
  /\ starship \in StarshipFiles
  /\ backups = {}
  /\ dialog = FALSE
  /\ stamp = 0
  /\ autoApply \in BOOLEAN
  /\ prompted = FALSE
  /\ wpc = [w \in Windows |-> "closed"]
  /\ shown = 0
  /\ activations = 0
  /\ Unregistered
  /\ NoSwitching

NextInstall ==
  \/ \E w \in Windows, theme \in EditorThemes : Activate(w, theme)
  \/ \E w \in Windows, choice \in UpgradeChoices, theme \in EditorThemes :
        UpgradeAnswer(w, choice, theme)
  \/ \E w \in Windows : CloseWindow(w)
  \/ \E b \in BOOLEAN : SetAutoApply(b)
  \/ \E theme \in ThemeTypes : ApplyTerminalConfiguration(theme)

SpecInstall == InitInstall /\ [][NextInstall]_vars

(* ---------------- registration of the hook in a zsh process ---------------- *)
\* number of times the block is read in the process
MaxEvals == 3
\* number of functions other code puts in one array
MaxFns == 2

\* function names as texts: __colorful_carbon_fetch, a name that begins
\* with it, and another name
HookName == <<"f">>
OtherNames == {<<"f", "2">>, <<"g">>}

\* "${arr[@]}" inside [[ ]]: the elements with one space between them
RECURSIVE JoinFns(_)
JoinFns(fns) ==
  IF fns = <<>> THEN <<>>
  ELSE IF Len(fns) = 1 THEN fns[1]
  ELSE fns[1] \o <<" ">> \o JoinFns(Tail(fns))

\* text =~ pattern, for a pattern without special characters: the pattern
\* occurs somewhere in the text
Matches(text, pat) ==
  \E i \in 1..(Len(text) - Len(pat) + 1) : SubSeq(text, i, i + Len(pat) - 1) = pat

\* a block that appends without the test
RegisterMut(fns) == Append(fns, HookName)

\* if [[ ! " ${arr[@]} " =~ " __colorful_carbon_fetch " ]]; then
\*   arr+=(__colorful_carbon_fetch); fi
Register(fns) ==
  IF Matches(<<" ">> \o JoinFns(fns) \o <<" ">>, <<" ">> \o HookName \o <<" ">>)
  THEN fns
  ELSE Append(fns, HookName)

\* how many times zsh calls the hook when it runs the functions of an array
Occurrences(fns) == Cardinality({i \in 1..Len(fns) : fns[i] = HookName})

\* the process reads .zshrc (at its start, or by source ~/.zshrc) with the
\* opt-out variable set (dis) or not: the block registers the hook in both
\* arrays and calls it once
EvalBlock(dis) ==
  /\ evals < MaxEvals
  /\ evals' = evals + 1
  /\ IF dis
     THEN /\ UNCHANGED <<chpwdFns, preexecFns>>
          /\ calls' = [event |-> "source", n |-> 0]
     ELSE /\ chpwdFns' = Register(chpwdFns)
          /\ preexecFns' = Register(preexecFns)
          /\ calls' = [event |-> "source", n |-> 1]
  /\ UNCHANGED <<terminals, themeSwitch, config>>

\* other code of the user's configuration adds a function of its own
AddFunction(arr, name) ==
  /\ IF arr = "chpwd"
     THEN /\ Len(SelectSeq(chpwdFns, LAMBDA x : x # HookName)) < MaxFns
          /\ chpwdFns' = Append(chpwdFns, name)
          /\ UNCHANGED preexecFns
     ELSE /\ Len(SelectSeq(preexecFns, LAMBDA x : x # HookName)) < MaxFns
          /\ preexecFns' = Append(preexecFns, name)
          /\ UNCHANGED chpwdFns
  /\ UNCHANGED <<evals, calls, terminals, themeSwitch, config>>

\* the directory changes: zsh calls every element of chpwd_functions
Chpwd ==
  /\ calls' = [event |-> "chpwd", n |-> Occurrences(chpwdFns)]
  /\ UNCHANGED <<chpwdFns, preexecFns, evals, terminals, themeSwitch, config>>

\* a command line is about to run: zsh calls every element of
\* preexec_functions
Preexec ==
  /\ calls' = [event |-> "preexec", n |-> Occurrences(preexecFns)]
  /\ UNCHANGED <<chpwdFns, preexecFns, evals, terminals, themeSwitch, config>>

\* a zsh process has started and has read nothing of .zshrc yet
InitHooks ==
  /\ clock = T0
  /\ hashTool = "shasum"
  /\ localStatus = "kept"
  /\ cacheDir = FALSE
  /\ record = [k \in Keys |-> Absent]
  /\ lock = [k \in Keys |-> FALSE]
  /\ pc = [p \in Shells |-> "start"]
  /\ cwd = [p \in Shells |-> "tmp"]
  /\ disabled = [p \in Shells |-> FALSE]
  /\ loc = [p \in Shells |-> NoLoc]
  /\ job = [p \in Shells |-> NoJob]
  /\ out = NoOut
  /\ Configured
  /\ Unregistered
  /\ NoSwitching

NextHooks ==
  \/ \E dis \in BOOLEAN : EvalBlock(dis)
  \/ \E arr \in {"chpwd", "preexec"}, name \in OtherNames : AddFunction(arr, name)
  \/ Chpwd
  \/ Preexec

SpecHooks == InitHooks /\ [][NextHooks]_vars

(* ---------------- theme switch commands and the theme listener ---------------- *)
\* number of switchToTheme operations under way at a time, and of theme
\* changes and listener calls pending at a time
MaxSwitches == 2
MaxPending == 2

\* switchToTheme: sets the flag, writes the marker and starship.toml, asks
\* the editor for the theme (the update is not awaited), reloads the
\* terminals and arms the timer that resets the flag
SwitchToTheme(theme) ==
  /\ inProgress < MaxSwitches
  /\ Len(requested) + waiting < MaxPending
  /\ manualFlag' = TRUE
  /\ starship' = File(<<theme>>)
  /\ requested' = Append(requested, theme)
  /\ inProgress' = inProgress + 1
  /\ UNCHANGED <<editorTheme, waiting, lastApplied, zshrc, backups, dialog, stamp, upgrade,
                 terminals, shellHooks>>

\* the user picks a colour theme in the editor itself
PickTheme(theme) ==
  /\ Len(requested) + waiting < MaxPending
  /\ requested' = Append(requested, theme)
  /\ UNCHANGED <<manualFlag, inProgress, editorTheme, waiting, lastApplied, config,
                 terminals, shellHooks>>

\* if (isManualSwitch()) return
ListenerSkips(flag) == flag

\* the editor applies a theme change; where the theme is another one,
\* onDidChangeActiveColorTheme calls the listener, which returns under the
\* flag and otherwise starts its delay
ThemeLands ==
  /\ requested # <<>>
  /\ editorTheme' = Head(requested)
  /\ requested' = Tail(requested)
  /\ waiting' = IF Head(requested) # editorTheme /\ ~ListenerSkips(manualFlag)
                THEN waiting + 1
                ELSE waiting
  /\ UNCHANGED <<manualFlag, inProgress, lastApplied, config, terminals, shellHooks>>

\* the listener after its delay: for a Colorful Carbon theme other than
\* lastAppliedTheme, updateStarshipConfig and reloadAllTerminals
ListenerContinue ==
  /\ waiting > 0
  /\ waiting' = waiting - 1
  /\ IF editorTheme \in ThemeTypes
     THEN IF lastApplied # editorTheme
          THEN /\ lastApplied' = editorTheme
               /\ starship' = File(<<editorTheme>>)
          ELSE UNCHANGED <<lastApplied, starship>>
     ELSE /\ lastApplied' = "none"
          /\ UNCHANGED starship
  /\ UNCHANGED <<manualFlag, inProgress, editorTheme, requested, zshrc, backups, dialog, stamp,
                 upgrade, terminals, shellHooks>>

\* setTimeout(() => { isManualThemeSwitch = false }, 500) of one operation
ResetTimer ==
  /\ inProgress > 0
  /\ manualFlag' = FALSE
  /\ inProgress' = inProgress - 1
  /\ UNCHANGED <<editorTheme, requested, waiting, lastApplied, config, terminals, shellHooks>>

\* a window with the extension activated and its terminal configuration
\* applied
InitTheme ==
  /\ clock = T0
  /\ hashTool = "shasum"
  /\ localStatus = "kept"
  /\ cacheDir = FALSE
  /\ record = [k \in Keys |-> Absent]
  /\ lock = [k \in Keys |-> FALSE]
  /\ pc = [p \in Shells |-> "start"]
  /\ cwd = [p \in Shells |-> "tmp"]
  /\ disabled = [p \in Shells |-> FALSE]
  /\ loc = [p \in Shells |-> NoLoc]
  /\ job = [p \in Shells |-> NoJob]
  /\ out = NoOut
  /\ Configured
  /\ Unregistered
  /\ manualFlag = FALSE
  /\ inProgress = 0
  /\ editorTheme \in EditorThemes
  /\ requested = <<>>
  /\ waiting = 0
  /\ lastApplied = "none"

NextTheme ==
  \/ \E theme \in ThemeTypes : SwitchToTheme(theme)
  \/ \E theme \in EditorThemes : PickTheme(theme)
  \/ ThemeLands
  \/ ListenerContinue
  \/ ResetTimer

SpecTheme == InitTheme /\ [][NextTheme]_vars

(* ---------------- the spec's isFresh ---------------- *)
\* a record is present, holds a number, and now - lastSyncEpochSeconds < freshnessWindow
IsFresh(k) == record[k].kind = "num" /\ clock - record[k].val < FreshnessWindow

(* ---------------- C1 ---------------- *)
\* the background fetches in flight for a key
Fetching(k) == {p \in Shells : job[p].phase = "fetching" /\ job[p].key = k}

\* C1: at most one background git fetch is in flight for a repository at any
\* time, under any interleaving of hook calls from independent shells
C1_AtMostOneFetch == \A k \in Keys : Cardinality(Fetching(k)) <= 1

(* ---------------- C2 ---------------- *)
\* C2: whatever "(#synced)" a prompt render prints, it prints only when the
\* repository's record is present and younger than the freshness window
C2_SyncedOnlyWhenFresh ==
  out.kind = "prompt" /\ (out.up \/ out.origin) => IsFresh(out.key)

(* ---------------- C3 ---------------- *)
\* the key a hook call of shell p derives in LAYER 1 and LAYER 2 (<<>> where
\* it returns there)
HookKey(p, wrapped) ==
  IF InRepoSeen(cwd[p], wrapped) /\ RootSeen(cwd[p], wrapped) # ""
  THEN SyncHash(hashTool, RootPath(RootSeen(cwd[p], wrapped)))
  ELSE <<>>

\* shell p calls the hook, from .zshrc (git the program) or from a zsh hook
\* array (git the function)
HookRuns(p, wrapped) == IF wrapped THEN Trigger(p) ELSE Startup(p) /\ ~disabled[p]

C4_Monotonic ==
  [][\A k \in Keys :
        (record[k].kind = "num" /\ record'[k].kind = "num")
           => record'[k].val >= record[k].val]_vars

(* ---------------- C5 ---------------- *)
\* the key of the prompt command and the wrapper for repository r
PromptKey(r) == FallbackHash(hashTool, RootPath(r))

\* C5: with a record that is absent, unreadable, empty or not a number, a
\* prompt render prints no "(#synced)" for the upstream and meets no error,
\* and a hook call goes on as for a stale repository; with a numeric record
\* the upstream indicator of a repository level with its upstream, and the
\* hook's early return, are decided by now - lastFetch < window
C5_FailOpenTrust ==
  [][/\ \A p \in Shells : \A t \in Trackings : \A m \in Mismatches :
          PromptRender(p, t, m) =>
             IF record[PromptKey(TopLevel(cwd[p]))].kind = "num"
             THEN t = "zero" => (out'.up <=> IsFresh(PromptKey(TopLevel(cwd[p]))))
             ELSE ~out'.up /\ out'.res = "ok"
     /\ \A p \in Shells : \A w \in BOOLEAN :
          (HookRuns(p, w) /\ HookKey(p, w) # <<>>) =>
             IF record[HookKey(p, w)].kind = "num"
             THEN pc'[p] = "idle" <=> IsFresh(HookKey(p, w))
             ELSE pc'[p] = "lockcheck"]_vars

(* ---------------- C6 ---------------- *)
\* C6: a record whose latest write completed less than a window ago is
\* fresh: after a successful background fetch isFresh stays true for the
\* window that follows the completion
C6_FreshAfterCompletion ==
  \A k \in Keys :
     (record[k].kind = "num" /\ clock - record[k].mtime < FreshnessWindow) => IsFresh(k)

(* ---------------- C7 ---------------- *)
\* C7: in a terminal where the wrapper is active, a successful pull or
\* fetch inside a repository goes on to write the record, with the time of
\* the call and without touching a lock marker; right after the write the
\* record is fresh and a hook call for that key returns on the fast path;
\* a pull or fetch that fails leaves the store as it was
C7_ManualSync ==
  [][/\ \A p \in Shells : \A cmd \in {"pull", "fetch"} :
          (~disabled[p] /\ TopLevel(cwd[p]) # "") =>
             /\ ManualGit(p, cmd, TRUE) =>
                   /\ pc'[p] = "mwrite"
                   /\ loc'[p].key = PromptKey(TopLevel(cwd[p]))
                   /\ loc'[p].now = clock
                   /\ UNCHANGED lock
             /\ ManualGit(p, cmd, FALSE) => UNCHANGED store /\ pc'[p] = "idle"
     /\ \A p \in Shells :
          ManualWrite(p) =>
             /\ UNCHANGED lock
             /\ record'[loc[p].key].kind = "num"
             /\ record'[loc[p].key].val = clock'
             /\ clock' - record'[loc[p].key].val < FreshnessWindow
     /\ \A p \in Shells :
          (out.kind = "git" /\ out.res = "wrote" /\ Trigger(p) /\ HookKey(p, TRUE) = out.key)
             => pc'[p] = "idle" /\ UNCHANGED job /\ out' = SyncOut(out.key, "fresh")]_vars

(* ---------------- C8 ---------------- *)
\* C8: when the detached job of an attempt ends, after a fetch that
\* succeeded or one that failed, the lock marker of its repository is gone,
\* whatever the terminal that started it is doing and whether or not the
\* marker was still there
C8_LockReleased ==
  [][\A p \in Shells :
        (job[p].phase # "none" /\ job'[p].phase = "none") => ~lock'[job[p].key]]_vars

\* a job whose fetch failed has ended and the marker of its key is gone
C8_Witness == out.kind = "job" /\ out.res = "failed" /\ ~lock[out.key]

(* ---------------- C9 ---------------- *)
\* C9: the step in which a background fetch fails leaves every record as it
\* was and starts nothing in the terminal, and a job that ends after a
\* failed fetch has put no message on the terminal
C9_SilentFailure ==
  [][/\ \A p \in Shells : FetchDone(p, FALSE) => UNCHANGED <<record, pc, loc>>
     /\ (out'.kind = "job" /\ out'.res = "failed") => ~out'.text]_vars

(* ---------------- C10 ---------------- *)
\* C10: a sweep keeps every record aged one second less than the retention
\* threshold and removes every record older than the threshold
C10_SweeperBoundary ==
  [][\A p \in Shells :
        (CheckLockSweep(p) /\ ~lock[loc[p].key]) =>
           \A k \in Keys :
              record[k].kind # "absent" =>
                 /\ (clock - record[k].mtime = Retention - 1 => record'[k] = record[k])
                 /\ (clock - record[k].mtime > Retention => record'[k] = Absent)]_vars

(* ---------------- C11 ---------------- *)
\* a lock marker that no running job stands behind
Abandoned(k) == lock[k] /\ \A q \in Shells : job[q].key # k

\* C11 as stated: the next sweep removes every lock marker that has no
\* record beside it
C11_SweepReclaimsLocks ==
  [][\A p \in Shells :
        (CheckLockSweep(p) /\ ~lock[loc[p].key]) =>
           \A k \in Keys : (lock[k] /\ record[k].kind = "absent") => ~lock'[k]]_vars

\* C11 amended: a sweep removes no lock marker; every marker, abandoned or
\* not, with or without a record, is still there after the sweep
C11_SweepKeepsLocks ==
  [][\A p \in Shells :
        (CheckLockSweep(p) /\ ~lock[loc[p].key]) => lock' = lock]_vars

\* a sweep has just run while an abandoned marker of another key lay in the
\* cache directory, and the marker is still there
C11_Witness ==
  \E p \in Shells :
     /\ pc[p] = "touch"
     /\ \E k \in Keys : k # loc[p].key /\ Abandoned(k)

(* ---------------- C12 ---------------- *)
\* shell p, or its detached job, takes a step on behalf of one key and
\* Frame(a, p) holds of that key: the hook's lock check, sweep, touch and
\* spawn, the job's steps, and the wrapper's write after pull / fetch
StepsKeep(p, Frame(_, _)) ==
  /\ (CheckLockSweep(p) \/ TouchSpawn(p) \/ ManualWrite(p)) => Frame(loc[p].key, p)
  /\ (\/ \E ok \in BOOLEAN : FetchDone(p, ok)
      \/ WriteNowRelease(p)) => Frame(job[p].key, p)
  /\ (/\ pc'[p] = "mwrite"
      /\ \E cmd \in GitCmds, ok \in BOOLEAN : ManualGit(p, cmd, ok)) => Frame(loc'[p].key, p)

\* a hook call that finds no marker for its own key goes on to touch,
\* whatever other markers exist
OtherLocksIgnored(p) ==
  (CheckLockSweep(p) /\ ~lock[loc[p].key]) => pc'[p] = "touch"

\* the step leaves the record and the marker of every key but a alone
OthersUntouched(a, p) ==
  \A b \in Keys \ {a} : lock'[b] = lock[b] /\ record'[b] = record[b]

\* the step leaves the marker of every key but a alone, and the record too
\* unless it is the hook's sweep removing a record older than the threshold
OthersOnlySwept(a, p) ==
  \A b \in Keys \ {a} :
     /\ lock'[b] = lock[b]
     /\ \/ record'[b] = record[b]
        \/ /\ CheckLockSweep(p)
           /\ record'[b] = Absent
           /\ clock - record[b].mtime > Retention

C13_PureRead ==
  [][(out'.kind = "prompt" /\ out' # out) =>
       /\ UNCHANGED <<store, pc, loc, job>>
       /\ \A p \in Shells : \A m \in Mismatches :
             PromptRender(p, "zero", m) =>
                (record[PromptKey(TopLevel(cwd[p]))].kind \in {"num", "absent", "empty", "unreadable"}
                   => (out'.up <=> IsFresh(PromptKey(TopLevel(cwd[p])))))]_vars

\* a render has answered "fresh" for a repository whose lock marker exists
\* and for which a background fetch is in flight
C13_Witness ==
  /\ out.kind = "prompt"
  /\ out.up
  /\ lock[out.key]
  /\ \E q \in Shells : job[q].phase = "fetching" /\ job[q].key = out.key

(* ---------------- C14 ---------------- *)
\* C14: a terminal that read .zshrc with the opt-out variable set never has
\* a hook call under way (no lock check, no touch), never has a detached
\* job, and its pull / fetch, successful or not, leaves the store as it was
C14_OptOut ==
  [][\A p \in Shells :
        disabled[p] =>
           /\ pc'[p] \in {"start", "idle"}
           /\ job'[p] = NoJob
           /\ \A cmd \in {"pull", "fetch"} : \A ok \in BOOLEAN :
                 ManualGit(p, cmd, ok) => UNCHANGED store]_vars

\* a pull or fetch has just succeeded in a terminal with the opt-out set,
\* and the wrapper has written nothing
C14_Witness ==
  /\ out.kind = "git"
  /\ out.res = "optout"
  /\ \E p \in Shells : disabled[p] /\ pc[p] = "idle" /\ job[p] = NoJob

(* ---------------- C15 ---------------- *)
\* C15: when a hook call starts a background fetch for a key, no other
\* fetch for that key is running that was started less than a freshness
\* window before, and none that was started less than a window before has
\* just ended
C15_OneFetchPerWindow ==
  [][\A p \in Shells :
        TouchSpawn(p) =>
           /\ \A q \in Shells :
                 (job[q].phase # "none" /\ job[q].key = loc[p].key)
                    => loc[p].now - job[q].now >= FreshnessWindow
           /\ (out.kind = "job" /\ out.key = loc[p].key)
                 => loc[p].now - out.t >= FreshnessWindow]_vars

(* ---------------- C16 ---------------- *)
\* C16: no reader, a hook call or a prompt render that reads the cache
\* file, ever finds the file of its repository empty between the truncation
\* and the write of a writer
C16_AllOrNothing ==
  [][/\ \A p \in Shells : \A w \in BOOLEAN :
          (HookRuns(p, w) /\ HookKey(p, w) # <<>>) => record[HookKey(p, w)].kind # "empty"
     /\ \A p \in Shells : \A m \in Mismatches :
          PromptRender(p, "zero", m) => record[PromptKey(TopLevel(cwd[p]))].kind # "empty"]_vars

(* ---------------- C17 ---------------- *)
\* C17: in a directory of a working tree the hook, the wrapper and the
\* prompt command all use the key derived from the top-level root, so that
\* each reads the record the others write; outside a repository a hook call
\* returns at once, and neither it nor a git command touches the store or
\* starts a job
C17_SharedIdentity ==
  [][/\ \A p \in Shells : \A w \in BOOLEAN :
          HookRuns(p, w) =>
             IF TopLevel(cwd[p]) # ""
             THEN HookKey(p, w) = PromptKey(TopLevel(cwd[p]))
             ELSE pc'[p] = "idle" /\ UNCHANGED <<store, job>>
     /\ \A p \in Shells : \A cmd \in GitCmds : \A ok \in BOOLEAN :
          ManualGit(p, cmd, ok) =>
             IF TopLevel(cwd[p]) # ""
             THEN pc'[p] = "mwrite" => loc'[p].key = PromptKey(TopLevel(cwd[p]))
             ELSE pc'[p] = "idle" /\ UNCHANGED store
     /\ \A p \in Shells : \A m \in Mismatches :
          PromptRender(p, "zero", m) => out'.key = PromptKey(TopLevel(cwd[p]))]_vars

(* ---------------- C18 ---------------- *)
\* C18: a record comes into existence only in a step of a background fetch
\* that succeeded or of a manual pull / fetch that succeeded: while every
\* attempt for a repository has failed, the repository has no record
C18_RecordsOnlyAfterSuccess ==
  [][\A k \in Keys :
        (record[k].kind = "absent" /\ record'[k].kind # "absent") =>
           \/ \E p \in Shells : job[p].key = k /\ FetchDone(p, TRUE)
           \/ \E p \in Shells : job[p].key = k /\ job[p].ok /\ WriteNowRelease(p)
           \/ \E p \in Shells : \E cmd \in {"pull", "fetch"} :
                 loc'[p].key = k /\ ManualGit(p, cmd, TRUE)]_vars

(* ---------------- C19 ---------------- *)
\* C19: whenever removeTerminalConfiguration changes ~/.zshrc or deletes
\* ~/.config/starship.toml, a backup file holding the text the file had
\* before the removal exists
C19_BackupBeforeRemoval ==
  [][\A choice \in Choices :
        RemoveAnswer(choice) =>
           /\ zshrc' # zshrc =>
                \E b \in backups' : b.file = ".zshrc" /\ b.text = zshrc.text
           /\ starship' # starship =>
                \E b \in backups' : b.file = "starship.toml" /\ b.text = starship.text]_vars

(* ---------------- C20 ---------------- *)
\* C20: on a machine without shasum (sha256sum only, or neither), a hook
\* call in a repository whose record is not fresh still derives a key, the
\* one the prompt command and the wrapper derive on that machine, and goes
\* on with it to the lock check from which the background fetch is started
C20_HashDegradation ==
  [][\A p \in Shells : \A w \in BOOLEAN :
        (/\ HookRuns(p, w)
         /\ hashTool # "shasum"
         /\ TopLevel(cwd[p]) # ""
         /\ ~IsFresh(PromptKey(TopLevel(cwd[p]))))
           => /\ pc'[p] = "lockcheck"
              /\ loc'[p].key = PromptKey(TopLevel(cwd[p]))]_vars

(* ---------------- C21 ---------------- *)
\* C21: while the lock marker of a fetch that was killed stands, every step
\* leaves the marker in place and starts no job for its repository, a hook
\* call that reaches the lock check for it returns there, whichever shell
\* makes it and whatever has been swept; a manual pull / fetch still writes
\* the record
C21_AbandonedLockBlocks ==
  [][\A k \in Keys :
        Abandoned(k) =>
           /\ lock'[k]
           /\ \A p \in Shells : job'[p].key # k
           /\ \A p \in Shells :
                (CheckLockSweep(p) /\ loc[p].key = k) => out' = SyncOut(k, "locked")
           /\ \A p \in Shells :
                (ManualWrite(p) /\ loc[p].key = k) => record'[k] = NumRec(loc[p].now, clock)]_vars

\* a hook call has returned at the marker of a killed fetch, after a manual
\* pull / fetch wrote the record and the record went stale again
C21_Witness ==
  /\ out.kind = "sync" /\ out.res = "locked"
  /\ Abandoned(out.key)
  /\ record[out.key].kind = "num" /\ record[out.key].val >= T0

(* ---------------- C22 ---------------- *)
\* C22: whatever the record and the clock, exactly one of the two holds for
\* a repository: the prompt command takes it as fresh, or a hook call goes
\* on to the lock check
C22_OneWindow ==
  [][\A p \in Shells : \A w \in BOOLEAN :
        (HookRuns(p, w) /\ TopLevel(cwd[p]) # "") =>
           \A sh \in ShCases(record[PromptKey(TopLevel(cwd[p]))]) :
              pc'[p] = "lockcheck"
                <=> ~UpSynced("zero", Age(record[PromptKey(TopLevel(cwd[p]))], clock, sh))]_vars

(* ---------------- C23 ---------------- *)
\* C23: whatever hash command the machine has, the keys the wrapper and the
\* prompt command derive for two different repository roots differ, so that
\* a pull or fetch in one repository writes no record the prompt of another
\* one reads
C23_DistinctRootsDistinctKeys ==
  [][\A p \in Shells : \A b \in Roots \ {TopLevel(cwd[p])} :
        /\ PromptKey(b) # PromptKey(TopLevel(cwd[p]))
        /\ ManualWrite(p) => record'[PromptKey(b)] = record[PromptKey(b)]]_vars

(* ---------------- C24 ---------------- *)
\* C24: however often the block is read in one process, the hook stands at
\* most once in chpwd_functions and at most once in preexec_functions, and
\* a directory change or a command line calls it at most once
C24_RegisteredOnce ==
  /\ Occurrences(chpwdFns) <= 1
  /\ Occurrences(preexecFns) <= 1
  /\ calls.n <= 1

\* the block has been read three times, among functions of other code, and
\* the directory change that followed called the hook once
C24_Witness ==
  /\ evals = MaxEvals
  /\ Occurrences(chpwdFns) = 1 /\ Len(chpwdFns) > 2
  /\ Occurrences(preexecFns) = 1
  /\ calls = [event |-> "chpwd", n |-> 1]

(* ---------------- C25 ---------------- *)
\* the Colorful Carbon blocks and the definitions of the hook in a text
BlockCount(t) == Cardinality({i \in 1..Len(t) : t[i] \in Blocks})
HookDefs(t) == Cardinality({i \in 1..Len(t) : t[i] \in WithHook})

\* C25: from a .zshrc without a block, with the block of an earlier version
\* or with the current block, every run of applyTerminalConfiguration, and
\* every run of installSmartFetch made by an activation, leaves ~/.zshrc
\* with exactly one block and exactly one definition of the hook; a run
\* that finds both leaves the file as it is
C25_InstallIdempotent ==
  [][/\ (\E theme \in ThemeTypes : ApplyTerminalConfiguration(theme)) =>
           /\ zshrc'.exists
           /\ BlockCount(zshrc'.text) = 1
           /\ HookDefs(zshrc'.text) = 1
     /\ zshrc' # zshrc =>
           /\ BlockCount(zshrc'.text) = 1
           /\ HookDefs(zshrc'.text) = 1
           /\ ~zshrc.exists \/ BlockCount(zshrc.text) = 0 \/ HookDefs(zshrc.text) = 0]_vars

\* applyTerminalConfiguration has run twice on a .zshrc that began with the
\* block of an earlier version
C25_Witness ==
  /\ stamp = 2
  /\ zshrc = File(<<"user", "cc">>)
  /\ Backup(".zshrc", 1, <<"user", "old">>) \in backups
  /\ Backup(".zshrc", 2, <<"user", "cc">>) \in backups

(* ---------------- C26 ---------------- *)
\* C26: an activation leaves ~/.zshrc as it is when the file is missing or
\* has no START marker; it changes the file only under autoApply or after
\* the answer Enable; and the upgrade question is shown at most once ever
C26_UpgradeOnce ==
  [][/\ \A w \in Windows : \A theme \in EditorThemes :
          Activate(w, theme) =>
             /\ (~zshrc.exists \/ ~HasStartMarker(zshrc.text)) => zshrc' = zshrc
             /\ zshrc' # zshrc => autoApply
             /\ shown' <= 1
     /\ \A w \in Windows : \A choice \in UpgradeChoices : \A theme \in EditorThemes :
          UpgradeAnswer(w, choice, theme) =>
             /\ (~zshrc.exists \/ ~HasStartMarker(zshrc.text)) => zshrc' = zshrc
             /\ zshrc' # zshrc => choice = "Enable"]_vars

(* ---------------- C27 ---------------- *)
\* C27: while a switchToTheme operation is under way, one or several, no
\* call of the theme listener gets past the flag, and the listener neither
\* updates starship.toml nor reloads the terminals
C27_ManualSwitchSuppression ==
  [][inProgress > 0 =>
        /\ waiting' <= waiting
        /\ ListenerContinue => UNCHANGED <<lastApplied, starship>>]_vars

(* ---------------- C28 ---------------- *)
\* C28: while a background fetch for a repository is in flight, the lock
\* marker of that repository exists
C28_LockTracksFetch ==
  \A p \in Shells : job[p].phase = "fetching" => lock[job[p].key]

(* ---------------- C29 ---------------- *)
\* C29: the sweep of a hook call leaves isFresh of every repository as it
\* was, and leaves every record written less than a window ago in place
C29_SweepKeepsTrust ==
  [][\A p \in Shells :
        (pc[p] = "lockcheck" /\ pc'[p] = "touch") =>
           \A k \in Keys :
              /\ IsFresh(k)' <=> IsFresh(k)
              /\ (record[k].kind # "absent" /\ clock - record[k].mtime < FreshnessWindow)
                    => record'[k] = record[k]]_vars

\* a hook call has just swept the cache directory while the record of
\* another repository, written in this session, is fresh
C29_Witness ==
  \E p \in Shells :
     /\ pc[p] = "touch"
     /\ \E k \in Keys \ {loc[p].key} : IsFresh(k) /\ record[k].mtime >= T0

(* ---------------- C30 ---------------- *)
\* every step of a process that has begun is taken in the end; a terminal
\* that is opened reads .zshrc, chpwd / preexec events keep coming, and a
\* fetch that is tried again and again succeeds in the end.  Nothing is
\* asked of the clock, of the prompt or of manual git commands.
Fairness ==
  /\ \A p \in Shells : WF_vars(Startup(p))
  /\ \A p \in Shells : WF_vars(Trigger(p))
  /\ \A p \in Shells : WF_vars(CheckLockSweep(p))
  /\ \A p \in Shells : WF_vars(TouchSpawn(p))
  /\ \A p \in Shells : SF_vars(FetchDone(p, TRUE))
  /\ \A p \in Shells : WF_vars(WriteNowRelease(p))
  /\ \A p \in Shells : WF_vars(ManualWrite(p))

SpecLive == Init /\ [][Next]_vars /\ Fairness

\* C30: a repository in which a terminal with the hook is open, and which
\* is not fresh, becomes fresh in the end
C30_EventualFreshness ==
  ~IsFresh(PromptKey("r1")) ~> IsFresh(PromptKey("r1"))

====
